---------------------------- MODULE Spec2Model ----------------------------
(***************************************************************************)
(* UTF-8 stream validator (src/main.c).  main() reads stdin one byte at a  *)
(* time with getchar(), classifies the header byte, reads and validates    *)
(* the continuation bytes, assembles the code point, rejects overlong,     *)
(* surrogate and out-of-range code points, counts the characters and       *)
(* exits with 0 or with one of the four error codes.                       *)
(***************************************************************************)
EXTENDS Integers, Sequences, FiniteSets, TLC

VARIABLES
    input,                   \* the bytes on stdin
    pos,                     \* how many of them getchar() has delivered
    pc,                      \* position of control in main()
    seqlen,                  \* which n-byte branch control is in (0: none)
    tailno,                  \* tail bytes accepted so far in that branch
    byte,                    \* int byte
    codepoint,               \* int_fast32_t codepoint
    one_byte_chars,          \* unsigned long long one_byte_chars
    two_or_more_byte_chars,  \* unsigned long long two_or_more_byte_chars
    exit_code,               \* value returned by main(), NotExited before
    out,                     \* what was printed at exit
    prev                     \* the outcomes of the earlier runs on this input

vars == <<input, pos, pc, seqlen, tailno, byte, codepoint,
          one_byte_chars, two_or_more_byte_chars, exit_code, out, prev>>

-----------------------------------------------------------------------------
(* Bounds of the model *)

\* longest input drawn from Alphabet
MaxLen == 3
\* longest input drawn from LongAlphabet
MaxLong == 4
\* longest input drawn from AsciiAlphabet
MaxAscii == 4
\* how many times the program is run on the same input
MaxRuns == 2

-----------------------------------------------------------------------------
(* Constants of main.c (decimal; the hexadecimal value is in the comment) *)

BYTE1_LAST_CODE_POINT == 127        \* 0x007F
BYTE2_LAST_CODE_POINT == 2047       \* 0x07FF
BYTE3_LAST_CODE_POINT == 65535      \* 0xFFFF
BYTE4_LAST_CODE_POINT == 1114111    \* 0x10FFFF

BYTE1_ENC_HEADER_PREFIX == 0        \* 0xxxxxxx
BYTE2_ENC_HEADER_PREFIX == 192      \* 110xxxxx
BYTE3_ENC_HEADER_PREFIX == 224      \* 1110xxxx
BYTE4_ENC_HEADER_PREFIX == 240      \* 11110xxx

ENC_TAIL_PREFIX == 128              \* 10xxxxxx

BYTE1_ENC_HEADER_PREFIX_MASK == 128 \* 10000000
BYTE2_ENC_HEADER_PREFIX_MASK == 224 \* 11100000
BYTE3_ENC_HEADER_PREFIX_MASK == 240 \* 11110000
BYTE4_ENC_HEADER_PREFIX_MASK == 248 \* 11111000

ENC_TAIL_PREFIX_MASK == 192         \* 11000000

SURROGATE_FIRST == 55296            \* 0xD800
SURROGATE_LAST == 57343             \* 0xDFFF

\* getchar()'s end-of-stream value
EOF == -1

\* main() has not returned yet
NotExited == -1

-----------------------------------------------------------------------------
(* The C operators on int values, in two's complement: a % 2 is the lowest *)
(* bit of a and a \div 2 (which rounds down) is a shifted right by one, so *)
(* 0 is the value with no bit set and -1 the value with every bit set.     *)

RECURSIVE BitAnd(_, _)
BitAnd(a, b) ==
    IF a = 0 \/ b = 0 THEN 0
    ELSE IF a = -1 THEN b
    ELSE IF b = -1 THEN a
    ELSE (a % 2) * (b % 2) + 2 * BitAnd(a \div 2, b \div 2)

RECURSIVE BitOr(_, _)
BitOr(a, b) ==
    IF a = 0 THEN b
    ELSE IF b = 0 THEN a
    ELSE IF a = -1 \/ b = -1 THEN -1
    ELSE (IF a % 2 = 1 \/ b % 2 = 1 THEN 1 ELSE 0) + 2 * BitOr(a \div 2, b \div 2)

\* ~m
BitNot(m) == -m - 1

\* (mutant: a shift by a whole byte where 6 bits are asked)
ShiftLeft_ByByte(c, n) == c * 2 ^ (n + 2)

\* c << n, c a code point of at most 21 bits
ShiftLeft(c, n) == c * 2 ^ n

BYTE2_ENC_HEADER_SUFFIX_MASK == BitNot(BYTE2_ENC_HEADER_PREFIX_MASK)
\* (mutant: the complement of the 4-byte header mask, one payload bit short)
BYTE3_ENC_HEADER_SUFFIX_MASK_Of4 == BitNot(BYTE4_ENC_HEADER_PREFIX_MASK)

BYTE3_ENC_HEADER_SUFFIX_MASK == BitNot(BYTE3_ENC_HEADER_PREFIX_MASK)
BYTE4_ENC_HEADER_SUFFIX_MASK == BitNot(BYTE4_ENC_HEADER_PREFIX_MASK)
ENC_TAIL_SUFFIX_MASK == BitNot(ENC_TAIL_PREFIX_MASK)

get_tail_bits(tail_byte) == BitAnd(tail_byte, ENC_TAIL_SUFFIX_MASK)

\* (mutant: the prefix in place of the prefix mask)
is_valid_tail_byte_PrefixAsMask(tail_byte) ==
    BitAnd(tail_byte, ENC_TAIL_PREFIX) = ENC_TAIL_PREFIX

is_valid_tail_byte(tail_byte) ==
    BitAnd(tail_byte, ENC_TAIL_PREFIX_MASK) = ENC_TAIL_PREFIX

\* the tests of main() on the header byte
\* (mutant: the mask of the tail bytes in place of the 1-byte header mask)
IsByte1Header_TailMask(header_byte) ==
    BitAnd(header_byte, ENC_TAIL_PREFIX_MASK) = BYTE1_ENC_HEADER_PREFIX

IsByte1Header(header_byte) ==
    BitAnd(header_byte, BYTE1_ENC_HEADER_PREFIX_MASK) = BYTE1_ENC_HEADER_PREFIX

\* (mutant: the mask of the tail bytes in the 2-byte test takes C0..FF)
IsByte2Header_TailMask(header_byte) ==
    BitAnd(header_byte, ENC_TAIL_PREFIX_MASK) = BYTE2_ENC_HEADER_PREFIX

IsByte2Header(header_byte) ==
    BitAnd(header_byte, BYTE2_ENC_HEADER_PREFIX_MASK) = BYTE2_ENC_HEADER_PREFIX

\* (mutant: the 2-byte header mask in the 3-byte test takes F0..FF as well)
IsByte3Header_Mask2(header_byte) ==
    BitAnd(header_byte, BYTE2_ENC_HEADER_PREFIX_MASK) = BYTE3_ENC_HEADER_PREFIX

IsByte3Header(header_byte) ==
    BitAnd(header_byte, BYTE3_ENC_HEADER_PREFIX_MASK) = BYTE3_ENC_HEADER_PREFIX

\* (mutant: the 3-byte header mask in place of the 4-byte one)
IsByte4Header_Mask3(header_byte) ==
    BitAnd(header_byte, BYTE3_ENC_HEADER_PREFIX_MASK) = BYTE4_ENC_HEADER_PREFIX

IsByte4Header(header_byte) ==
    BitAnd(header_byte, BYTE4_ENC_HEADER_PREFIX_MASK) = BYTE4_ENC_HEADER_PREFIX

\* (mutant: < in place of <=)
is_overlong_encoding2_Strict(cp) == cp < BYTE1_LAST_CODE_POINT

is_overlong_encoding2(cp) == cp <= BYTE1_LAST_CODE_POINT

is_overlong_encoding3(cp) == cp <= BYTE2_LAST_CODE_POINT

is_overlong_encoding4(cp) == cp <= BYTE3_LAST_CODE_POINT

-----------------------------------------------------------------------------
(* The inputs *)

Seqs(S, n) == UNION {[1..k -> S] : k \in 0..n}

\* 41 | 80 90 A0 BF | C0 C2 | E0 ED | F0 F4 | F8
Alphabet == {65, 128, 144, 160, 191, 192, 194, 224, 237, 240, 244, 248}

\* 41 | 80 8D 90 BF | F0 F4
LongAlphabet == {65, 128, 141, 144, 191, 240, 244}

\* 00 0A 41 7F
AsciiAlphabet == {0, 10, 65, 127}

\* the UTF-8 encoding of a code point, by division
Encode(cp) ==
    IF cp <= 127 THEN <<cp>>
    ELSE IF cp <= 2047 THEN <<192 + (cp \div 64), 128 + (cp % 64)>>
    ELSE IF cp <= 65535 THEN
        <<224 + (cp \div 4096), 128 + ((cp \div 64) % 64), 128 + (cp % 64)>>
    ELSE <<240 + (cp \div 262144), 128 + ((cp \div 4096) % 64),
           128 + ((cp \div 64) % 64), 128 + (cp % 64)>>

\* code points of the 2-, 3- and 4-byte ranges: the ends of every range,
\* and code points spread over it
SampleCPs2 == {128, 129, 233, 2046, 2047} \cup {128 + k * 61 : k \in 0..31}

SampleCPs3 ==
    ({2048, 2049, 8364, 55295, 57344, 65534, 65535}
        \cup {2048 + k * 2111 : k \in 0..30}) \ (55296..57343)

SampleCPs4 ==
    {65536, 65537, 128512, 1114110, 1114111} \cup {65536 + k * 36161 : k \in 0..28}

SampleCPs == SampleCPs2 \cup SampleCPs3 \cup SampleCPs4

Prefixes(s) == {SubSeq(s, 1, k) : k \in 0..Len(s)}

\* the inputs of the specification's scenarios and boundaries
Scenarios ==
    { <<65, 195, 169, 226, 130, 172>>,   \* 41 C3 A9 E2 82 AC
      <<192, 128>>,                      \* C0 80
      <<193, 191>>,                      \* C1 BF
      <<65, 193, 191>>,                  \* 41 C1 BF
      <<127>>,                           \* 7F
      <<128>>,                           \* 80
      <<255>>,                           \* FF
      <<192, 65>>,                       \* C0 41
      <<237, 160, 65>>,                  \* ED A0 41
      <<245, 65>>,                       \* F5 41
      <<226, 130>>,                      \* E2 82
      <<224, 159, 191>>,                 \* E0 9F BF
      <<237, 160, 128>>,                 \* ED A0 80
      <<237, 191, 191>>,                 \* ED BF BF
      <<240, 141, 160, 128>>,            \* F0 8D A0 80
      <<240, 143, 191, 191>>,            \* F0 8F BF BF
      <<244, 144, 128, 128>>,            \* F4 90 80 80
      <<247, 191, 191, 191>>,            \* F7 BF BF BF
      <<194, 128, 192, 128, 65>>,        \* C2 80 C0 80 41
      <<65, 194, 128, 248>> }            \* 41 C2 80 F8

\* every byte value, alone
SingleBytes == {<<b>> : b \in 0..255}

Inputs ==
    SingleBytes
    \cup Seqs(Alphabet, MaxLen) \cup Seqs(LongAlphabet, MaxLong)
    \cup Seqs(AsciiAlphabet, MaxAscii)
    \cup UNION {Prefixes(Encode(cp)) : cp \in SampleCPs}
    \cup {<<65>> \o Encode(cp) \o <<65>> : cp \in SampleCPs}
    \cup Scenarios

\* what an object without initialiser may hold
Garbage == {0, -1}

-----------------------------------------------------------------------------
(* main() *)

Init ==
    /\ input \in Inputs
    /\ pos = 0
    /\ pc = "loop"
    /\ seqlen = 0
    /\ tailno = 0
    /\ \E g \in Garbage : byte = g /\ codepoint = g
    /\ one_byte_chars = 0
    /\ two_or_more_byte_chars = 0
    /\ exit_code = NotExited
    /\ out = [kind |-> "none"]
    /\ prev = <<>>

\* the value of the next getchar()
getchar == IF pos < Len(input) THEN input[pos + 1] ELSE EOF

\* the stream position after that getchar()
\* (mutant: getchar() hands out the same byte again)
Advance_Stay == pos

Advance == IF pos < Len(input) THEN pos + 1 ELSE pos

\* while ((byte = getchar()) != EOF) { header_byte = byte; if ... }
ReadHeader ==
    /\ pc = "loop"
    /\ byte' = getchar
    /\ pos' = Advance
    /\ LET header_byte == getchar IN
       IF header_byte = EOF THEN
            /\ pc' = "print"
            /\ UNCHANGED <<seqlen, tailno, codepoint,
                           one_byte_chars, two_or_more_byte_chars>>
       ELSE IF IsByte1Header(header_byte) THEN
            /\ one_byte_chars' = one_byte_chars + 1
            /\ pc' = "loop"
            /\ UNCHANGED <<seqlen, tailno, codepoint, two_or_more_byte_chars>>
       ELSE IF IsByte2Header(header_byte) THEN
            /\ codepoint' = BitAnd(header_byte, BYTE2_ENC_HEADER_SUFFIX_MASK)
            /\ pc' = "tail"
            /\ seqlen' = 2
            /\ tailno' = 0
            /\ UNCHANGED <<one_byte_chars, two_or_more_byte_chars>>
       ELSE IF IsByte3Header(header_byte) THEN
            /\ codepoint' = BitAnd(header_byte, BYTE3_ENC_HEADER_SUFFIX_MASK)
            /\ pc' = "tail"
            /\ seqlen' = 3
            /\ tailno' = 0
            /\ UNCHANGED <<one_byte_chars, two_or_more_byte_chars>>
       ELSE IF IsByte4Header(header_byte) THEN
            /\ codepoint' = BitAnd(header_byte, BYTE4_ENC_HEADER_SUFFIX_MASK)
            /\ pc' = "tail"
            /\ seqlen' = 4
            /\ tailno' = 0
            /\ UNCHANGED <<one_byte_chars, two_or_more_byte_chars>>
       ELSE
            /\ pc' = "ERROR_INVALID_HEADER_BYTE"
            /\ UNCHANGED <<seqlen, tailno, codepoint,
                           one_byte_chars, two_or_more_byte_chars>>
    /\ UNCHANGED <<input, exit_code, out, prev>>

\* the checks made on the assembled code point of an n-byte sequence:
\* the label jumped to, or "ok"
\* (mutant: the overlong check of the 2-byte branch is missing)
PostCheck2_NoCheck(cp) == "ok"

PostCheck2(cp) ==
    IF is_overlong_encoding2(cp) THEN "ERROR_OVERLONG_ENCODING" ELSE "ok"

\* (mutant: the check of the surrogate halves is missing)
PostCheck3_NoSurrogateCheck(cp) ==
    IF is_overlong_encoding3(cp) THEN "ERROR_OVERLONG_ENCODING" ELSE "ok"

\* (mutant: > in place of >= at the first surrogate)
PostCheck3_AfterFirst(cp) ==
    IF cp > SURROGATE_FIRST /\ cp <= SURROGATE_LAST THEN "ERROR_INVALID_CODE_POINT"
    ELSE IF is_overlong_encoding3(cp) THEN "ERROR_OVERLONG_ENCODING"
    ELSE "ok"

PostCheck3(cp) ==
    IF cp >= SURROGATE_FIRST /\ cp <= SURROGATE_LAST THEN "ERROR_INVALID_CODE_POINT"
    ELSE IF is_overlong_encoding3(cp) THEN "ERROR_OVERLONG_ENCODING"
    ELSE "ok"

\* (mutant: >= in place of > lets one code point past the last through)
PostCheck4_OnePast(cp) ==
    IF cp > BYTE4_LAST_CODE_POINT + 1 THEN "ERROR_INVALID_CODE_POINT"
    ELSE IF is_overlong_encoding4(cp) THEN "ERROR_OVERLONG_ENCODING"
    ELSE "ok"

PostCheck4(cp) ==
    IF cp > BYTE4_LAST_CODE_POINT THEN "ERROR_INVALID_CODE_POINT"
    ELSE IF is_overlong_encoding4(cp) THEN "ERROR_OVERLONG_ENCODING"
    ELSE "ok"

\* the two tests on a byte read in a tail position: the label jumped to, or "ok"
\* (mutant: the end of the stream treated as a bad tail byte)
TailCheck_EofIsTailByte(c) ==
    IF c = EOF THEN "ERROR_INVALID_TAIL_BYTE"
    ELSE IF ~is_valid_tail_byte(c) THEN "ERROR_INVALID_TAIL_BYTE"
    ELSE "ok"

\* (mutant: the test for the end of the stream is missing)
TailCheck_NoEofTest(c) ==
    IF ~is_valid_tail_byte(c) THEN "ERROR_INVALID_TAIL_BYTE" ELSE "ok"

TailCheck(c) ==
    IF c = EOF THEN "ERROR_INVALID_CODE_POINT"
    ELSE IF ~is_valid_tail_byte(c) THEN "ERROR_INVALID_TAIL_BYTE"
    ELSE "ok"

PostCheck(n, cp) ==
    CASE n = 2 -> PostCheck2(cp)
      [] n = 3 -> PostCheck3(cp)
      [] n = 4 -> PostCheck4(cp)

\* if ((byte = getchar()) == EOF) goto ERROR_INVALID_CODE_POINT;
\* if (!is_valid_tail_byte(byte)) goto ERROR_INVALID_TAIL_BYTE;
\* codepoint = (codepoint << 6) | get_tail_bits(byte);
\* and, after the last tail byte of the branch, its checks and
\* ++two_or_more_byte_chars, in the branch of the n-byte characters.
\* (mutant: the character is counted at each of its tail bytes)
ReadTail_CountsEachByte(n) ==
    /\ byte' = getchar
    /\ pos' = Advance
    /\ IF TailCheck(getchar) # "ok" THEN
            /\ pc' = TailCheck(getchar)
            /\ UNCHANGED <<seqlen, tailno, codepoint, two_or_more_byte_chars>>
       ELSE
            /\ codepoint' = BitOr(ShiftLeft(codepoint, 6), get_tail_bits(getchar))
            /\ two_or_more_byte_chars' = two_or_more_byte_chars + 1
            /\ IF tailno + 1 < n - 1 THEN
                    /\ pc' = "tail"
                    /\ tailno' = tailno + 1
                    /\ UNCHANGED seqlen
               ELSE IF PostCheck(n, codepoint') # "ok" THEN
                    /\ pc' = PostCheck(n, codepoint')
                    /\ tailno' = tailno + 1
                    /\ UNCHANGED seqlen
               ELSE
                    /\ pc' = "loop"
                    /\ seqlen' = 0
                    /\ tailno' = 0
    /\ UNCHANGED <<input, one_byte_chars, exit_code, out, prev>>

ReadTail(n) ==
    /\ byte' = getchar
    /\ pos' = Advance
    /\ IF TailCheck(getchar) # "ok" THEN
            /\ pc' = TailCheck(getchar)
            /\ UNCHANGED <<seqlen, tailno, codepoint, two_or_more_byte_chars>>
       ELSE
            /\ codepoint' = BitOr(ShiftLeft(codepoint, 6), get_tail_bits(getchar))
            /\ IF tailno + 1 < n - 1 THEN
                    /\ pc' = "tail"
                    /\ tailno' = tailno + 1
                    /\ UNCHANGED <<seqlen, two_or_more_byte_chars>>
               ELSE IF PostCheck(n, codepoint') # "ok" THEN
                    /\ pc' = PostCheck(n, codepoint')
                    /\ tailno' = tailno + 1
                    /\ UNCHANGED <<seqlen, two_or_more_byte_chars>>
               ELSE
                    /\ two_or_more_byte_chars' = two_or_more_byte_chars + 1
                    /\ pc' = "loop"
                    /\ seqlen' = 0
                    /\ tailno' = 0
    /\ UNCHANGED <<input, one_byte_chars, exit_code, out, prev>>

\* a tail byte of the 2-byte branch
ReadTail2 ==
    /\ pc = "tail"
    /\ seqlen = 2
    /\ ReadTail(2)

\* a tail byte of the 3-byte branch
ReadTail3 ==
    /\ pc = "tail"
    /\ seqlen = 3
    /\ ReadTail(3)

\* a tail byte of the 4-byte branch
ReadTail4 ==
    /\ pc = "tail"
    /\ seqlen = 4
    /\ ReadTail(4)

\* printf("Found %llu ASCII and %llu multi-byte UTF-8 characters.\n", ...);
\* return 0;
PrintTally ==
    /\ pc = "print"
    /\ out' = [kind |-> "Found", ascii |-> one_byte_chars,
               multibyte |-> two_or_more_byte_chars]
    /\ exit_code' = 0
    /\ pc' = "exit"
    /\ UNCHANGED <<input, pos, seqlen, tailno, byte, codepoint,
                   one_byte_chars, two_or_more_byte_chars, prev>>

\* an error label: fprintf(stderr, <kind>, detail); return code;
ErrorExit(label, kind, detail, code) ==
    /\ pc = label
    /\ out' = [kind |-> kind, detail |-> detail]
    /\ exit_code' = code
    /\ pc' = "exit"
    /\ UNCHANGED <<input, pos, seqlen, tailno, byte, codepoint,
                   one_byte_chars, two_or_more_byte_chars, prev>>

\* (mutant: the code point printed in place of the byte)
ERROR_INVALID_HEADER_BYTE_PrintsCodePoint ==
    ErrorExit("ERROR_INVALID_HEADER_BYTE", "Invalid UTF-8 header byte",
              codepoint, 1)

ERROR_INVALID_HEADER_BYTE ==
    ErrorExit("ERROR_INVALID_HEADER_BYTE", "Invalid UTF-8 header byte", byte, 1)

\* (mutant: the return value of the label above)
ERROR_INVALID_TAIL_BYTE_Returns1 ==
    ErrorExit("ERROR_INVALID_TAIL_BYTE", "Invalid UTF-8 tail byte", byte, 1)

ERROR_INVALID_TAIL_BYTE ==
    ErrorExit("ERROR_INVALID_TAIL_BYTE", "Invalid UTF-8 tail byte", byte, 2)

\* (mutant: the byte printed in place of the code point)
ERROR_INVALID_CODE_POINT_PrintsByte ==
    ErrorExit("ERROR_INVALID_CODE_POINT", "Invalid UTF-8 code point", byte, 3)

ERROR_INVALID_CODE_POINT ==
    ErrorExit("ERROR_INVALID_CODE_POINT", "Invalid UTF-8 code point", codepoint, 3)

ERROR_OVERLONG_ENCODING ==
    ErrorExit("ERROR_OVERLONG_ENCODING", "Overlong UTF-8 code point", codepoint, 4)

Next ==
    \/ ReadHeader
    \/ ReadTail2
    \/ ReadTail3
    \/ ReadTail4
    \/ PrintTally
    \/ ERROR_INVALID_HEADER_BYTE
    \/ ERROR_INVALID_TAIL_BYTE
    \/ ERROR_INVALID_CODE_POINT
    \/ ERROR_OVERLONG_ENCODING

Spec == Init /\ [][Next]_vars

\* the program is started again on the same input once it has returned:
\* main() is entered with fresh locals, and the outcome of the run that
\* ended is kept for comparison
\* main() runs on one thread and getchar() on a finite stream returns, so a
\* step that can be taken is taken
SpecFair == Init /\ [][Next]_vars /\ WF_vars(Next)

Rerun ==
    /\ pc = "exit"
    /\ Len(prev) + 1 < MaxRuns
    /\ prev' = Append(prev, [code |-> exit_code, out |-> out])
    /\ pos' = 0
    /\ pc' = "loop"
    /\ seqlen' = 0
    /\ tailno' = 0
    /\ \E g \in Garbage : byte' = g /\ codepoint' = g
    /\ one_byte_chars' = 0
    /\ two_or_more_byte_chars' = 0
    /\ exit_code' = NotExited
    /\ out' = [kind |-> "none"]
    /\ UNCHANGED input

NextRerun == Next \/ Rerun

SpecRerun == Init /\ [][NextRerun]_vars

-----------------------------------------------------------------------------
(* The definition of UTF-8, stated on byte values by arithmetic, against   *)
(* which main() is checked.                                                *)

IsCont(b) == b \in 128..191

\* the length announced by a leading byte, 0 if it is none
RefLen(b) ==
    IF b \in 0..127 THEN 1
    ELSE IF b \in 192..223 THEN 2
    ELSE IF b \in 224..239 THEN 3
    ELSE IF b \in 240..247 THEN 4
    ELSE 0

\* the payload of a leading byte
RefPayload(b) ==
    IF b \in 0..127 THEN b
    ELSE IF b \in 192..223 THEN b - 192
    ELSE IF b \in 224..239 THEN b - 224
    ELSE b - 240

\* the value of a leading byte followed by Len(s) - 1 continuation bytes
RECURSIVE RefAssemble(_)
RefAssemble(s) ==
    IF Len(s) = 1 THEN RefPayload(s[1])
    ELSE 64 * RefAssemble(SubSeq(s, 1, Len(s) - 1)) + (s[Len(s)] - 128)

\* the greatest code point of the encodings shorter than n bytes
RefShorterMax(n) == IF n = 2 THEN 127 ELSE IF n = 3 THEN 2047 ELSE 65535

\* the code points an n-byte sequence may encode
RefScalars(n, v) ==
    IF n = 1 THEN v \in 0..127
    ELSE IF n = 2 THEN v \in 128..2047
    ELSE IF n = 3 THEN v \in 2048..65535 /\ v \notin 55296..57343
    ELSE v \in 65536..1114111

\* s is one well-formed sequence
WellFormedChar(s) ==
    /\ Len(s) >= 1
    /\ RefLen(s[1]) = Len(s)
    /\ \A i \in 2..Len(s) : IsCont(s[i])
    /\ RefScalars(Len(s), RefAssemble(s))

\* s is a concatenation of well-formed sequences
RECURSIVE WellFormed(_)
WellFormed(s) ==
    \/ s = <<>>
    \/ LET n == RefLen(s[1]) IN
        /\ n >= 1
        /\ Len(s) >= n
        /\ WellFormedChar(SubSeq(s, 1, n))
        /\ WellFormed(SubSeq(s, n + 1, Len(s)))

\* the numbers of 1-byte and of longer sequences of a well-formed s
RECURSIVE RefAscii(_)
RefAscii(s) ==
    IF s = <<>> THEN 0
    ELSE LET n == RefLen(s[1]) IN
        (IF n = 1 THEN 1 ELSE 0) + RefAscii(SubSeq(s, n + 1, Len(s)))

RECURSIVE RefMulti(_)
RefMulti(s) ==
    IF s = <<>> THEN 0
    ELSE LET n == RefLen(s[1]) IN
        (IF n = 1 THEN 0 ELSE 1) + RefMulti(SubSeq(s, n + 1, Len(s)))

Exited == exit_code # NotExited

\* the first k bytes of the input, and the bytes from there to the last
\* byte read
Pre(k) == SubSeq(input, 1, k)

Cur(k) == SubSeq(input, k + 1, pos)

\* the k such that the bytes read so far are Pre(k), well-formed, followed
\* by the leading byte of a 2-, 3- or 4-byte sequence and by no more bytes
\* than it announces, of which every one but the last read is a
\* continuation byte (there is at most one such k)
SeqStarts ==
    {k \in 0..(pos - 1) :
        /\ WellFormed(Pre(k))
        /\ RefLen(input[k + 1]) >= 2
        /\ pos - k <= RefLen(input[k + 1])
        /\ \A i \in (k + 2)..(pos - 1) : IsCont(input[i])}

\* the k of SeqStarts whose sequence is read to its last byte, every tail
\* byte a continuation byte
WholeSeqStarts ==
    {k \in SeqStarts : pos - k = RefLen(input[k + 1]) /\ IsCont(input[pos])}

\* neither counter changes in the step
CountersUnchanged ==
    UNCHANGED <<one_byte_chars, two_or_more_byte_chars>>

\* main() is at the error label, or has returned from it with that
\* diagnostic and exit code
FailedWith(label, kind, detail, code) ==
    /\ pc \in {label, "exit"}
    /\ pc = label => ~Exited
    /\ pc = "exit" => exit_code = code /\ out = [kind |-> kind, detail |-> detail]

\* the counters hold the characters of Pre(k) and nothing else
CountedOnly(k) ==
    /\ one_byte_chars = RefAscii(Pre(k))
    /\ two_or_more_byte_chars = RefMulti(Pre(k))

-----------------------------------------------------------------------------
(* C1: main() returns 0 exactly for the inputs that are a concatenation of *)
(* well-formed UTF-8 sequences, and then the ASCII count it prints is the  *)
(* number of 1-byte sequences and the multi-byte count the number of 2-,   *)
(* 3- and 4-byte sequences of the input.                                   *)
C1_SuccessIffWellFormed ==
    Exited =>
        /\ (exit_code = 0) <=> WellFormed(input)
        /\ exit_code = 0 =>
            out = [kind |-> "Found", ascii |-> RefAscii(input),
                   multibyte |-> RefMulti(input)]

C1_Witness ==
    /\ input = <<65, 195, 169, 226, 130, 172>>
    /\ exit_code = 0
    /\ out.ascii = 1
    /\ out.multibyte = 2

(* C2: an input of bytes 0x00..0x7F only, the empty one included, is read  *)
(* to its end without any error, every byte read is counted as ASCII, and  *)
(* main() returns 0 with ASCII count = length and multi-byte count = 0.    *)
C2_AsciiOnly ==
    (\A i \in 1..Len(input) : input[i] \in 0..127) =>
        /\ pc \in {"loop", "print", "exit"}
        /\ one_byte_chars = pos
        /\ two_or_more_byte_chars = 0
        /\ Exited =>
            /\ exit_code = 0
            /\ out = [kind |-> "Found", ascii |-> Len(input), multibyte |-> 0]

C2_Witness ==
    /\ input = <<0, 127, 65, 10>>
    /\ exit_code = 0
    /\ out.ascii = 4
    /\ out.multibyte = 0

\* the sampled code points lie in their ranges and have the encoded length
C3_Ranges ==
    /\ \A cp \in SampleCPs2 : cp \in 128..2047 /\ Len(Encode(cp)) = 2
    /\ \A cp \in SampleCPs3 :
        cp \in 2048..65535 /\ cp \notin 55296..57343 /\ Len(Encode(cp)) = 3
    /\ \A cp \in SampleCPs4 : cp \in 65536..1114111 /\ Len(Encode(cp)) = 4

\* the inputs C3 is about
C3_Inputs ==
    {Encode(cp) : cp \in SampleCPs}
        \cup {<<65>> \o Encode(cp) \o <<65>> : cp \in SampleCPs}

(* C3: round trip.  For every sampled code point cp of the 2-byte range    *)
(* 0x80..0x7FF, of the 3-byte range 0x800..0xFFFF without the surrogates   *)
(* and of the 4-byte range 0x10000..0x10FFFF, once main() has read the     *)
(* encoding of cp (alone, or between two ASCII bytes) the variable         *)
(* codepoint holds cp, no error label was reached and the multi-byte count *)
(* went up by exactly 1 while the ASCII count did not move.                *)
C3_RoundTrip ==
    /\ C3_Ranges
    /\ input \in C3_Inputs => \A cp \in SampleCPs :
        LET e == Encode(cp) IN
        /\ (input = e /\ pos = Len(e) /\ pc # "tail") =>
            /\ codepoint = cp
            /\ pc \in {"loop", "print", "exit"}
            /\ Exited => exit_code = 0
            /\ one_byte_chars = 0
            /\ two_or_more_byte_chars = 1
        /\ (input = <<65>> \o e \o <<65>> /\ pos = 1 + Len(e) /\ pc # "tail") =>
            /\ codepoint = cp
            /\ pc = "loop"
            /\ one_byte_chars = 1
            /\ two_or_more_byte_chars = 1
        /\ (input = <<65>> \o e \o <<65>> /\ pos = 1 /\ byte # EOF) =>
            /\ one_byte_chars = 1
            /\ two_or_more_byte_chars = 0
        /\ (input = <<65>> \o e \o <<65>> /\ Exited) =>
            /\ exit_code = 0
            /\ out = [kind |-> "Found", ascii |-> 2, multibyte |-> 1]

C3_Witness ==
    /\ input = <<65>> \o Encode(1114111) \o <<65>>
    /\ pos = 5
    /\ pc = "loop"
    /\ codepoint = 1114111
    /\ two_or_more_byte_chars = 1

(* C4: when the bytes read are well-formed sequences followed by a whole   *)
(* 2-, 3- or 4-byte sequence whose tail bytes are all continuation bytes   *)
(* and whose value is at most 0x7F, 0x7FF or 0xFFFF respectively, main()   *)
(* is at ERROR_OVERLONG_ENCODING or has returned 4 from it, the code point *)
(* it holds and prints is that value, and the counters hold the earlier    *)
(* characters only.  C1 BF and C0 80 return 4; 7F alone returns 0.         *)
C4_Overlong ==
    /\ \A k \in WholeSeqStarts :
        LET v == RefAssemble(Cur(k)) IN
        v <= RefShorterMax(pos - k) =>
            /\ FailedWith("ERROR_OVERLONG_ENCODING",
                          "Overlong UTF-8 code point", v, 4)
            /\ codepoint = v
            /\ CountedOnly(k)
    /\ (input = <<193, 191>> /\ Exited) => exit_code = 4 /\ out.detail = 127
    /\ (input = <<192, 128>> /\ Exited) => exit_code = 4 /\ out.detail = 0
    /\ (input = <<127>> /\ Exited) => exit_code = 0

C4_Witness ==
    /\ input = <<65, 193, 191>>
    /\ exit_code = 4
    /\ out.detail = 127
    /\ one_byte_chars = 1
    /\ two_or_more_byte_chars = 0

(* C5: when the bytes read are well-formed sequences followed by a whole   *)
(* 3-byte sequence with continuation tail bytes and a value in             *)
(* 0xD800..0xDFFF, main() is at ERROR_INVALID_CODE_POINT or has returned 3 *)
(* from it with that value, and the character is not counted; a whole      *)
(* 4-byte sequence with such a value ends at ERROR_OVERLONG_ENCODING       *)
(* (exit code 4) instead.                                                  *)
C5_Surrogates ==
    \A k \in WholeSeqStarts :
        LET v == RefAssemble(Cur(k)) IN
        v \in 55296..57343 =>
            /\ pos - k \in {3, 4}
            /\ pos - k = 3 =>
                /\ FailedWith("ERROR_INVALID_CODE_POINT",
                              "Invalid UTF-8 code point", v, 3)
                /\ codepoint = v
                /\ CountedOnly(k)
            /\ pos - k = 4 =>
                /\ FailedWith("ERROR_OVERLONG_ENCODING",
                              "Overlong UTF-8 code point", v, 4)
                /\ codepoint = v
                /\ CountedOnly(k)

C5_Witness ==
    /\ input = <<237, 160, 128>>
    /\ exit_code = 3
    /\ out = [kind |-> "Invalid UTF-8 code point", detail |-> 55296]
    /\ two_or_more_byte_chars = 0

\* the checks of the 4-byte branch, made in the other order
C6_OverlongFirst(cp) ==
    IF is_overlong_encoding4(cp) THEN "ERROR_OVERLONG_ENCODING"
    ELSE IF cp > BYTE4_LAST_CODE_POINT THEN "ERROR_INVALID_CODE_POINT"
    ELSE "ok"

(* C6: when the bytes read are well-formed sequences followed by a whole   *)
(* 4-byte sequence with continuation tail bytes and a value above          *)
(* 0x10FFFF, main() is at ERROR_INVALID_CODE_POINT or has returned 3 from  *)
(* it with that value; and on the value of every whole 4-byte sequence the *)
(* range test and the overlong test are not both true, so that the checks  *)
(* made in the other order give the same verdict.                          *)
C6_AboveRange ==
    \A k \in WholeSeqStarts :
        LET v == RefAssemble(Cur(k)) IN
        pos - k = 4 =>
            /\ v > 1114111 =>
                /\ FailedWith("ERROR_INVALID_CODE_POINT",
                              "Invalid UTF-8 code point", v, 3)
                /\ codepoint = v
                /\ CountedOnly(k)
            /\ ~(v > BYTE4_LAST_CODE_POINT /\ is_overlong_encoding4(v))
            /\ PostCheck4(v) = C6_OverlongFirst(v)

C6_Witness ==
    /\ input = <<244, 144, 128, 128>>
    /\ exit_code = 3
    /\ out = [kind |-> "Invalid UTF-8 code point", detail |-> 1114112]

(* C7: when the bytes read are well-formed sequences followed by a byte in *)
(* 0x80..0xBF or 0xF8..0xFF, main() is at ERROR_INVALID_HEADER_BYTE or has *)
(* returned 1 from it, the diagnostic carries that byte, and the counters  *)
(* hold the earlier characters; and whenever main() is at that label or    *)
(* has returned 1, the last byte read is such a byte after well-formed     *)
(* sequences, so that no byte after it was read.                           *)
C7_InvalidHeader ==
    /\ (/\ pos >= 1
        /\ WellFormed(Pre(pos - 1))
        /\ input[pos] \in (128..191) \cup (248..255)) =>
            /\ FailedWith("ERROR_INVALID_HEADER_BYTE",
                          "Invalid UTF-8 header byte", input[pos], 1)
            /\ byte = input[pos]
            /\ CountedOnly(pos - 1)
    /\ (pc = "ERROR_INVALID_HEADER_BYTE" \/ exit_code = 1) =>
            /\ pos >= 1
            /\ WellFormed(Pre(pos - 1))
            /\ input[pos] \in (128..191) \cup (248..255)
            /\ byte = input[pos]
            /\ Exited => out = [kind |-> "Invalid UTF-8 header byte",
                                detail |-> input[pos]]

C7_Witness ==
    /\ input = <<65, 248, 65>>
    /\ exit_code = 1
    /\ out = [kind |-> "Invalid UTF-8 header byte", detail |-> 248]
    /\ pos = 2

(* C8: when the bytes read are well-formed sequences followed by the       *)
(* leading byte of a 2-, 3- or 4-byte sequence, continuation bytes, and,   *)
(* still inside the announced length, a byte that is not a continuation    *)
(* byte, main() is at ERROR_INVALID_TAIL_BYTE or has returned 2 from it    *)
(* with that byte as the detail, whatever the code point assembled so far; *)
(* and main() is at ERROR_OVERLONG_ENCODING, or at ERROR_INVALID_CODE_POINT*)
(* without having met the end of the stream, only after a whole sequence   *)
(* of continuation tail bytes.  C0 41, ED A0 41 and F5 41 return 2.        *)
C8_InvalidTail ==
    /\ \A k \in SeqStarts :
        (pos - k >= 2 /\ ~IsCont(input[pos])) =>
            /\ FailedWith("ERROR_INVALID_TAIL_BYTE",
                          "Invalid UTF-8 tail byte", input[pos], 2)
            /\ byte = input[pos]
            /\ CountedOnly(k)
    /\ (pc = "ERROR_OVERLONG_ENCODING" \/ exit_code = 4) => WholeSeqStarts # {}
    /\ ((pc = "ERROR_INVALID_CODE_POINT" \/ exit_code = 3) /\ byte # EOF) =>
            WholeSeqStarts # {}
    /\ (input \in {<<192, 65>>, <<237, 160, 65>>, <<245, 65>>} /\ Exited) =>
            exit_code = 2 /\ out.detail = 65

C8_Witness ==
    /\ input = <<237, 160, 65>>
    /\ exit_code = 2
    /\ out = [kind |-> "Invalid UTF-8 tail byte", detail |-> 65]

\* the bytes read are well-formed sequences followed by the leading byte of
\* a 2-, 3- or 4-byte sequence and fewer continuation bytes than announced,
\* and main() has met the end of the stream there
Truncated(k) ==
    /\ k \in SeqStarts
    /\ pos = Len(input)
    /\ pos - k < RefLen(input[k + 1])
    /\ IsCont(input[pos]) \/ pos - k = 1
    /\ byte = EOF

(* C9 as stated: the end of the stream met where a continuation byte is    *)
(* expected makes main() fail with the invalid tail byte diagnostic, exit  *)
(* code 2, carrying the end-of-stream value.                               *)
C9_TruncationIsTailByte ==
    \A k \in 0..Len(input) :
        Truncated(k) =>
            FailedWith("ERROR_INVALID_TAIL_BYTE", "Invalid UTF-8 tail byte", EOF, 2)

(* C9 amended: the end of the stream met where a continuation byte is      *)
(* expected makes main() fail with the invalid code point diagnostic,      *)
(* exit code 3, carrying the variable codepoint; the invalid tail byte     *)
(* diagnostic (exit code 2) never carries the end-of-stream value.         *)
C9_TruncationIsCodePoint ==
    /\ \A k \in 0..Len(input) :
        Truncated(k) =>
            FailedWith("ERROR_INVALID_CODE_POINT",
                       "Invalid UTF-8 code point", codepoint, 3)
    /\ (pc = "ERROR_INVALID_TAIL_BYTE" \/ exit_code = 2) => byte # EOF
    /\ exit_code = 2 => out.detail # EOF

C9_Witness ==
    /\ input = <<65, 194>>
    /\ byte = EOF
    /\ exit_code = 3
    /\ out.kind = "Invalid UTF-8 code point"

(* C10: for each length 2, 3, 4 and each position of the missing           *)
(* continuation byte, the end of the stream met inside a sequence makes    *)
(* main() fail with exit code 3, and the code point carried is the value   *)
(* of the header payload followed by the 6-bit payloads of the             *)
(* continuation bytes read so far; the counters hold the earlier           *)
(* characters only.  E2 82 then the end of the stream gives U+0082.        *)
C10_TruncationDetail ==
    /\ \A k \in 0..Len(input) :
        Truncated(k) =>
            /\ pc \in {"ERROR_INVALID_CODE_POINT", "exit"}
            /\ codepoint = RefAssemble(Cur(k))
            /\ Exited =>
                /\ exit_code = 3
                /\ out.detail = RefAssemble(Cur(k))
            /\ CountedOnly(k)
    /\ (input = <<226, 130>> /\ Exited) => exit_code = 3 /\ out.detail = 130

\* a truncation after `tails` continuation bytes of an n-byte sequence
\* has been reported
TruncatedAt(n, tails) ==
    \E k \in 0..Len(input) :
        /\ Truncated(k)
        /\ RefLen(input[k + 1]) = n
        /\ pos - k = tails + 1
        /\ exit_code = 3

C10_Witness ==
    /\ TruncatedAt(4, 2)
    /\ input = <<240, 144, 128>>
    /\ out.detail = 1024

-----------------------------------------------------------------------------
(* The outcome the definition of UTF-8 gives an input: the longest prefix  *)
(* of well-formed sequences, and what is wrong with the sequence after it. *)

\* the length of the longest prefix of s made of well-formed sequences
RECURSIVE GoodPrefixLen(_)
GoodPrefixLen(s) ==
    IF s = <<>> THEN 0
    ELSE LET n == RefLen(s[1]) IN
        IF n >= 1 /\ Len(s) >= n /\ WellFormedChar(SubSeq(s, 1, n))
        THEN n + GoodPrefixLen(SubSeq(s, n + 1, Len(s)))
        ELSE 0

\* what is wrong with r, which starts with a sequence that is not
\* well-formed: the exit code, the detail and the number of bytes of r read
\* when it shows
RefDefect(r) ==
    LET n == RefLen(r[1])
        \* the positions of r, up to the announced length, where no
        \* continuation byte stands
        bad == {i \in 2..n : i > Len(r) \/ ~IsCont(r[i])}
    IN  IF n = 0 THEN [code |-> 1, detail |-> r[1], read |-> 1]
        ELSE IF bad # {} THEN
            LET i == CHOOSE j \in bad : \A l \in bad : j <= l IN
            IF i > Len(r)
            THEN [code |-> 3, detail |-> RefAssemble(SubSeq(r, 1, i - 1)),
                  read |-> i - 1]
            ELSE [code |-> 2, detail |-> r[i], read |-> i]
        ELSE
            LET v == RefAssemble(SubSeq(r, 1, n)) IN
            IF v <= RefShorterMax(n)
            THEN [code |-> 4, detail |-> v, read |-> n]
            ELSE [code |-> 3, detail |-> v, read |-> n]

\* the outcome of an input: exit code, detail (for a failure), bytes read,
\* and the bytes of the well-formed sequences before the failing one
RefOutcome(s) ==
    LET k == GoodPrefixLen(s) IN
    IF k = Len(s) THEN [code |-> 0, read |-> k, good |-> k]
    ELSE LET d == RefDefect(SubSeq(s, k + 1, Len(s))) IN
        [code |-> d.code, detail |-> d.detail, read |-> k + d.read, good |-> k]

ErrorLabels ==
    {"ERROR_INVALID_HEADER_BYTE", "ERROR_INVALID_TAIL_BYTE",
     "ERROR_INVALID_CODE_POINT", "ERROR_OVERLONG_ENCODING"}

\* the diagnostic and the exit code of each label
KindOf(label) ==
    CASE label = "ERROR_INVALID_HEADER_BYTE" -> "Invalid UTF-8 header byte"
      [] label = "ERROR_INVALID_TAIL_BYTE" -> "Invalid UTF-8 tail byte"
      [] label = "ERROR_INVALID_CODE_POINT" -> "Invalid UTF-8 code point"
      [] label = "ERROR_OVERLONG_ENCODING" -> "Overlong UTF-8 code point"

CodeOf(label) ==
    CASE label = "ERROR_INVALID_HEADER_BYTE" -> 1
      [] label = "ERROR_INVALID_TAIL_BYTE" -> 2
      [] label = "ERROR_INVALID_CODE_POINT" -> 3
      [] label = "ERROR_OVERLONG_ENCODING" -> 4

\* an error was raised: main() is at an error label or has returned from one
Failed == pc \in ErrorLabels \/ exit_code \in 1..4

\* in a state where an error was raised: the bytes read are the well-formed
\* sequences before the first malformed one and the part of that one which
\* shows its defect, the counters hold those well-formed sequences, and the
\* label or the exit code and diagnostic are those of that defect
C11_FirstDefect ==
    Failed =>
        LET o == RefOutcome(input) IN
        /\ o.code \in 1..4
        /\ pos = o.read
        /\ CountedOnly(o.good)
        /\ pc \in ErrorLabels => CodeOf(pc) = o.code /\ ~Exited
        /\ Exited =>
            /\ pc = "exit"
            /\ exit_code = o.code
            /\ out.detail = o.detail
            /\ \E l \in ErrorLabels : CodeOf(l) = exit_code /\ out.kind = KindOf(l)

\* a step from a state where an error was raised reads no byte, changes no
\* counter, prints no tally and keeps the failure
C11_TerminalStep ==
    Failed =>
        /\ pos' = pos
        /\ CountersUnchanged
        /\ out'.kind # "Found"
        /\ exit_code' # 0
        /\ pc \in ErrorLabels => exit_code' = CodeOf(pc) /\ out'.kind = KindOf(pc)
        /\ Exited => exit_code' = exit_code /\ out' = out /\ pc' = pc

\* main() returns one of 0..4, 0 with the tally and 1..4 with a diagnostic
C11_Outcomes ==
    Exited =>
        /\ exit_code \in 0..4
        /\ (exit_code = 0) <=> (out.kind = "Found")
        /\ exit_code = 0 => RefOutcome(input).code = 0

(* C11: failure is terminal and is that of the first malformed sequence.   *)
(* Once main() is at an error label or has returned 1..4, no step reads a  *)
(* byte, changes a counter, prints the tally or changes the failure; the   *)
(* bytes read are well-formed sequences followed by the sequence whose     *)
(* defect is reported, and the kind, detail and exit code are those of     *)
(* that defect; main() returns 0 with the tally or one of 1..4 with the    *)
(* diagnostic of that code.                                                *)
C11_FailureIsTerminal ==
    /\ [](C11_FirstDefect /\ C11_Outcomes)
    /\ [][C11_TerminalStep]_vars

C11_Witness ==
    /\ input = <<194, 128, 192, 128, 65>>
    /\ exit_code = 4
    /\ pos = 4
    /\ two_or_more_byte_chars = 1
    /\ out = [kind |-> "Overlong UTF-8 code point", detail |-> 0]

(* C12: determinism.  When the program is run again on the same input,     *)
(* from fresh locals whatever they hold before their first assignment,     *)
(* the run returns the same exit code and prints the same tally or the     *)
(* same diagnostic with the same detail as every earlier run on it.        *)
C12_SameOutcome ==
    Exited => \A i \in 1..Len(prev) : prev[i] = [code |-> exit_code, out |-> out]

C12_Witness ==
    /\ Len(prev) = 1
    /\ input = <<65, 194, 128, 248>>
    /\ exit_code = 1
    /\ prev[1].code = 1
    /\ out = [kind |-> "Invalid UTF-8 header byte", detail |-> 248]
    /\ codepoint = 128

\* the sum of the lengths announced by the leading bytes of the sequences
\* of a well-formed s
RECURSIVE RefLenSum(_)
RefLenSum(s) ==
    IF s = <<>> THEN 0
    ELSE LET n == RefLen(s[1]) IN n + RefLenSum(SubSeq(s, n + 1, Len(s)))

\* main() is between two sequences: about to read a leading byte, or done
\* with the last one
AtBoundary == pc \in {"loop", "print"} \/ exit_code = 0

\* at a boundary the bytes read are exactly the counted characters, each
\* with the length its leading byte announces
C13_Boundary ==
    AtBoundary =>
        /\ WellFormed(Pre(pos))
        /\ CountedOnly(pos)
        /\ pos = RefLenSum(Pre(pos))
        /\ one_byte_chars + 2 * two_or_more_byte_chars <= pos
        /\ pos <= one_byte_chars + 4 * two_or_more_byte_chars

\* a step changes a counter only by reading the last byte of a sequence
\* that passes every check, and that sequence ends the bytes read
C13_CountStep ==
    /\ one_byte_chars' # one_byte_chars =>
        /\ pos' = pos + 1
        /\ WellFormedChar(<<input[pos']>>)
        /\ pc' = "loop"
    /\ two_or_more_byte_chars' # two_or_more_byte_chars =>
        /\ pos' = pos + 1
        /\ pc' = "loop"
        /\ \E n \in 2..4 :
            /\ n <= pos'
            /\ WellFormed(Pre(pos' - n))
            /\ WellFormedChar(SubSeq(input, pos' - n + 1, pos'))
            /\ codepoint' = RefAssemble(SubSeq(input, pos' - n + 1, pos'))

(* C13: each time a leading byte is about to be read, and at successful    *)
(* termination, the number of bytes read is the sum, over the characters   *)
(* counted, of the length announced by each character's leading byte; and  *)
(* a counter moves only in the step that reads the last byte of a sequence *)
(* whose tail bytes, code point range, surrogate and overlong checks all   *)
(* pass.                                                                   *)
C13_BytesOfCountedChars ==
    /\ []C13_Boundary
    /\ [][C13_CountStep]_vars

C13_Witness ==
    /\ input = <<65, 195, 169, 226, 130, 172>>
    /\ pc = "loop"
    /\ pos = 6
    /\ one_byte_chars = 1
    /\ two_or_more_byte_chars = 2


\* a step at a getchar() takes the next unread byte, or the end-of-stream
\* marker when none is left; no other step reads
C14_InOrder ==
    IF pc \in {"loop", "tail"} THEN
        IF pos < Len(input)
        THEN pos' = pos + 1 /\ byte' = input[pos + 1]
        ELSE pos' = pos /\ byte' = EOF
    ELSE pos' = pos /\ byte' = byte

\* the loop is left for the tally only from a read for a leading byte
\* that meets the end of the stream, and 0 is returned only from there
C14_SuccessStep ==
    /\ (pc' = "print" /\ pc # "print") =>
            /\ pc = "loop"
            /\ pos = Len(input)
            /\ byte' = EOF
            /\ WellFormed(input)
    /\ (exit_code' = 0 /\ exit_code # 0) =>
            /\ pc = "print"
            /\ pos = Len(input)
            /\ byte = EOF
            /\ WellFormed(input)

(* C14: on every finite input main() eventually returns, with exit code 0 *)
(* or one of 1..4, and stays returned; it reads the bytes in order, each  *)
(* at most once; it returns 0 only when a read for a leading byte meets   *)
(* the end of the stream, every byte having been read and no sequence     *)
(* being left unfinished.                                                 *)
C14_Terminates ==
    /\ <>[](exit_code \in 0..4)
    /\ [][C14_InOrder /\ C14_SuccessStep]_vars
    /\ [](pos \in 0..Len(input))

C14_Witness ==
    /\ Len(input) = 4
    /\ RefLen(input[1]) = 4
    /\ exit_code = 0
    /\ pos = 4
    /\ byte = EOF
    /\ two_or_more_byte_chars = 1


\* the step reads the last byte of a well-formed sequence
CompletesSequence == pos' = pos + 1 /\ WellFormed(Pre(pos'))

(* C15: no step lowers a counter; the step that reads the last byte of a  *)
(* well-formed sequence adds exactly 1 to the ASCII counter for a 1-byte  *)
(* sequence, to the multi-byte counter otherwise, and leaves the other    *)
(* counter alone; every other step (reading a leading or continuation     *)
(* byte of an unfinished sequence, jumping to an error label, printing,   *)
(* returning) changes neither counter.                                    *)
C15_CounterFrame ==
    [][ /\ one_byte_chars' >= one_byte_chars
        /\ two_or_more_byte_chars' >= two_or_more_byte_chars
        /\ IF CompletesSequence THEN
                IF RefLen(input[pos']) = 1 /\ WellFormed(Pre(pos))
                THEN /\ one_byte_chars' = one_byte_chars + 1
                     /\ two_or_more_byte_chars' = two_or_more_byte_chars
                ELSE /\ two_or_more_byte_chars' = two_or_more_byte_chars + 1
                     /\ one_byte_chars' = one_byte_chars
           ELSE CountersUnchanged
        /\ (pc' \in ErrorLabels \/ pc \in ErrorLabels) => CountersUnchanged
        /\ (pos' = pos + 1 /\ IsCont(input[pos']) /\ ~CompletesSequence)
                => CountersUnchanged ]_vars

C15_Witness ==
    /\ Len(input) = 5
    /\ input[1] = 65
    /\ RefLen(input[2]) = 3
    /\ pos = 4
    /\ pc = "loop"
    /\ one_byte_chars = 1
    /\ two_or_more_byte_chars = 1


\* the tail bytes the branch main() is in still has to read
Expected == IF seqlen = 0 THEN 0 ELSE seqlen - 1 - tailno

\* inside a sequence the branch is the one its leading byte announces and
\* the tail bytes left are those announced less those read
C16_InSequence ==
    /\ Expected \in 0..3
    /\ pc = "tail" =>
        \E k \in SeqStarts :
            /\ seqlen = RefLen(input[k + 1])
            /\ Expected = RefLen(input[k + 1]) - (pos - k)
            /\ Expected >= 1

\* reading a leading byte of length n leaves n - 1 tail bytes to read; a
\* continuation byte takes exactly one off; a sequence whose tail bytes
\* are all continuation bytes ends after as many bytes as its leading
\* byte announces, whatever their values
C16_ExpectedStep ==
    /\ (pc = "loop" /\ pos < Len(input) /\ RefLen(input[pos + 1]) >= 2) =>
            /\ pc' = "tail"
            /\ Expected' = RefLen(input[pos + 1]) - 1
    /\ (pc = "tail" /\ pos < Len(input) /\ IsCont(input[pos + 1])) =>
            /\ Expected' = Expected - 1
            /\ (pc' = "tail") = (Expected' > 0)
    /\ (pc = "tail" /\ ~(pos < Len(input) /\ IsCont(input[pos + 1]))) =>
            /\ Expected' = Expected
            /\ pc' \in {"ERROR_INVALID_TAIL_BYTE", "ERROR_INVALID_CODE_POINT"}
    /\ (pc = "tail" /\ pc' # "tail" /\ IsCont(byte')) =>
            \E k \in SeqStarts : pos' - k = RefLen(input[k + 1])

(* C16: the branch taken, hence the number of bytes of the sequence, is    *)
(* fixed by the leading byte alone; right after a leading byte announcing  *)
(* n bytes, n - 1 continuation bytes are still to be read; each valid      *)
(* continuation byte lowers that number by exactly 1; it is always within  *)
(* 0..3; and the values of the continuation bytes do not change how many   *)
(* bytes the sequence takes.                                               *)
C16_LengthFromLeadingByte ==
    /\ []C16_InSequence
    /\ [][C16_ExpectedStep]_vars

C16_Witness ==
    /\ Len(input) = 4
    /\ input[1] = 240
    /\ pc = "tail"
    /\ pos = 3
    /\ seqlen = 4
    /\ Expected = 1


\* the n-th prefix test of main()
HeaderTest(n, b) ==
    CASE n = 1 -> IsByte1Header(b)
      [] n = 2 -> IsByte2Header(b)
      [] n = 3 -> IsByte3Header(b)
      [] n = 4 -> IsByte4Header(b)

\* the orders in which the four tests can be tried
TestOrders == {p \in [1..4 -> 1..4] : \A i, j \in 1..4 : p[i] = p[j] => i = j}

\* the first test of the order p that b passes, 0 if it passes none
ClassifyIn(p, b) ==
    IF \E i \in 1..4 : HeaderTest(p[i], b)
    THEN p[CHOOSE i \in 1..4 :
                /\ HeaderTest(p[i], b)
                /\ \A j \in 1..(i - 1) : ~HeaderTest(p[j], b)]
    ELSE 0

\* the low n bits of a byte
LowBits(b, n) == b % (2 ^ n)

\* a byte about to be classified passes the test of its row and no other;
\* and, for each of the 256 byte values, whatever the order of the tests
C17_OneRow ==
    (pc = "loop" /\ pos < Len(input)) =>
        LET b == input[pos + 1] IN
        /\ {n \in 1..4 : HeaderTest(n, b)} =
                IF RefLen(b) = 0 THEN {} ELSE {RefLen(b)}
        /\ RefLen(b) = (CASE b \in 0..127 -> 1
                          [] b \in 192..223 -> 2
                          [] b \in 224..239 -> 3
                          [] b \in 240..247 -> 4
                          [] OTHER -> 0)
        /\ input \in SingleBytes =>
                \A p \in TestOrders : ClassifyIn(p, b) = RefLen(b)

\* main() takes the branch of the row and, for a multi-byte header, the
\* low 5, 4 or 3 bits as the first bits of the code point; a 1-byte
\* header is its own low 7 bits
C17_HeaderStep ==
    (pc = "loop" /\ pos < Len(input)) =>
        LET b == input[pos + 1] IN
        CASE RefLen(b) = 1 ->
                /\ pc' = "loop"
                /\ one_byte_chars' = one_byte_chars + 1
                /\ LowBits(b, 7) = b
          [] RefLen(b) \in 2..4 ->
                /\ pc' = "tail"
                /\ seqlen' = RefLen(b)
                /\ codepoint' = LowBits(b, 7 - RefLen(b))
          [] OTHER ->
                /\ pc' = "ERROR_INVALID_HEADER_BYTE"
                /\ byte' = b

(* C17: every byte value 0x00..0xFF passes exactly the prefix test of its *)
(* row (0xxxxxxx, 110xxxxx, 1110xxxx, 11110xxx) or, in the fifth row,    *)
(* none of the four, so trying the tests in any order gives the same row; *)
(* main() takes the branch of that row, and the payload it takes from a   *)
(* header is its low 7, 5, 4 or 3 bits.                                   *)
C17_Classification ==
    /\ []C17_OneRow
    /\ [][C17_HeaderStep]_vars

C17_Witness ==
    /\ input = <<247>>
    /\ pc = "tail"
    /\ seqlen = 4
    /\ codepoint = 7


\* the greatest value of 21 payload bits (5+6, 4+6+6 or 3+6+6+6 at most)
MaxAssembled == 2 ^ 21 - 1

\* the greatest value of an int_fast32_t of the least width allowed
MaxInt32 == 2 ^ 30 + (2 ^ 30 - 1)

\* codepoint was assigned: the header of a multi-byte sequence was read
Assigned == \E i \in 1..pos : RefLen(input[i]) >= 2

\* the code point assembled so far, and the shift about to be made on it,
\* fit in 21 bits; before the first assignment codepoint is not read
C18_Bounded ==
    /\ Assigned =>
            /\ codepoint \in 0..MaxAssembled
            /\ pc = "tail" =>
                    /\ ShiftLeft(codepoint, 6) + 63 \in 0..MaxAssembled
                    /\ ShiftLeft(codepoint, 6) + 63 <= MaxInt32
                    /\ \A k \in SeqStarts : codepoint = RefAssemble(Cur(k))
    /\ ~Assigned => codepoint \in Garbage /\ pc \in {"loop", "print", "exit",
                                                     "ERROR_INVALID_HEADER_BYTE"}

\* a step that counts a multi-byte character has assembled a scalar value
\* above the ASCII range
C18_CountedScalar ==
    two_or_more_byte_chars' # two_or_more_byte_chars =>
        /\ codepoint' \in 128..1114111
        /\ codepoint' \notin 55296..57343

(* C18: once a multi-byte header has been read, the code point under      *)
(* assembly is in every state an integer of 0..0x1FFFFF, and so is the    *)
(* result of each shift-and-or, far below the greatest 32-bit signed      *)
(* integer; every character counted as multi-byte has a code point in     *)
(* 0x80..0x10FFFF outside 0xD800..0xDFFF.                                 *)
C18_CodePointRange ==
    /\ []C18_Bounded
    /\ [][C18_CountedScalar]_vars

C18_Witness ==
    /\ input = <<247, 191, 191, 191>>
    /\ pc = "ERROR_INVALID_CODE_POINT"
    /\ codepoint = MaxAssembled


(* C19: the byte reported by an "Invalid UTF-8 tail byte" failure is never *)
(* the end-of-stream marker: it is the byte of the input last read, and    *)
(* its value is in 0x00..0x7F or 0xC0..0xFF; the byte reported by an       *)
(* "Invalid UTF-8 header byte" failure is the byte of the input last read, *)
(* and its value is in 0x80..0xBF or 0xF8..0xFF. The same holds of the     *)
(* byte held at the error label, before it is printed.                     *)
C19_ReportedByte ==
    /\ (pc = "ERROR_INVALID_TAIL_BYTE"
            \/ (Exited /\ out.kind = "Invalid UTF-8 tail byte")) =>
        LET d == IF Exited THEN out.detail ELSE byte IN
        /\ d # EOF
        /\ pos >= 1
        /\ d = input[pos]
        /\ d \in (0..127) \cup (192..255)
        /\ Exited => exit_code = 2
    /\ (pc = "ERROR_INVALID_HEADER_BYTE"
            \/ (Exited /\ out.kind = "Invalid UTF-8 header byte")) =>
        LET d == IF Exited THEN out.detail ELSE byte IN
        /\ d # EOF
        /\ pos >= 1
        /\ d = input[pos]
        /\ d \in (128..191) \cup (248..255)
        /\ Exited => exit_code = 1

C19_Witness ==
    /\ input = <<224, 160, 248>>
    /\ exit_code = 2
    /\ out = [kind |-> "Invalid UTF-8 tail byte", detail |-> 248]
    /\ pos = 3

=============================================================================
